---------------------------- MODULE Spec2Model ----------------------------
(***************************************************************************)
(* A model of src/kaleidoscope.cpp: the lexer (get_token), the token       *)
(* buffer (get_next_token), the recursive-descent / precedence-climbing    *)
(* parser and the driver loop (main).                                      *)
(*                                                                         *)
(* Characters are their codes, as in the source, where a token is an int:  *)
(* a negative value of enum token, or the code of a literal character.     *)
(* A double is modelled by the exact decimal it was read from: the record  *)
(* [m |-> mantissa, e |-> number of decimals], without trailing zeros.     *)
(*                                                                         *)
(* main calls handle_definition, handle_extern and handle_top_level_expr,  *)
(* which the source does not define.  They are modelled from sections 6    *)
(* and 7 of the specification: each calls its parser entry point and, when *)
(* that fails, advances past the offending token.                          *)
(***************************************************************************)
EXTENDS Integers, Sequences, FiniteSets, TLC

VARIABLES
    input,             \* the characters of standard input (never changes)
    pos,               \* number of characters getchar() has delivered
    last_char,         \* get_token's static int last_char
    identifier_str,    \* static std::string identifier_str
    numeric_value,     \* static double numeric_value
    current_token,     \* static int current_token
    binop_precedence,  \* static std::map<char, int> binop_precedence
    stderr_log,        \* the diagnostics written by log_error, in order
    pc,                \* where the driver (or the lexer harness) stands
    result,            \* what the last parser entry point returned
    call,              \* history: the dispatch in progress (see Entry)
    ncalls,            \* history: number of calls of get_token so far
    built_ops,         \* history: operators of all binary_expr_ast built
    dispatches,        \* history: number of dispatches main has made
    tokens,            \* harness: tokens of the current tokenization run
    runs               \* harness: number of rewinds of the input stream

vars == <<input, pos, last_char, identifier_str, numeric_value, current_token,
          binop_precedence, stderr_log, pc, result, call, ncalls, built_ops,
          dispatches, tokens, runs>>

---------------------------------------------------------------------------
(* enum token, and the characters the source names *)

tok_eof == -1
tok_def == -2
tok_extern == -3
tok_identifier == -4
tok_number == -5

EOF == -1
CH_NL == 10
CH_CR == 13
CH_SPACE == 32
CH_HASH == 35
CH_LPAREN == 40
CH_RPAREN == 41
CH_STAR == 42
CH_PLUS == 43
CH_COMMA == 44
CH_MINUS == 45
CH_DOT == 46
CH_SLASH == 47
CH_SEMI == 59
CH_LT == 60
CH_GT == 62

\* "def" and "extern"
STR_def == <<100, 101, 102>>
STR_extern == <<101, 120, 116, 101, 114, 110>>

\* <cctype>, in the "C" locale (main never calls setlocale)
isspace(c) == c \in {9, 10, 11, 12, 13, 32}
isdigit(c) == c \in 48..57
isalpha(c) == c \in (65..90) \cup (97..122)
isalnum(c) == isalpha(c) \/ isdigit(c)
isascii(c) == c \in 0..127

---------------------------------------------------------------------------
(* The lexer.  A state s is the record of the program's globals. *)

\* last_char = getchar(): the next character of the stream, or EOF for ever
\* once the stream is exhausted.
getchar(s) ==
    IF s.pos < Len(input)
    THEN [s EXCEPT !.last_char = input[s.pos + 1], !.pos = s.pos + 1]
    ELSE [s EXCEPT !.last_char = EOF]

RECURSIVE SkipSpace(_)
\* while (isspace(last_char)) last_char = getchar();
SkipSpace(s) == IF isspace(s.last_char) THEN SkipSpace(getchar(s)) ELSE s

RECURSIVE ReadIdentifier(_)
\* while (isalnum((last_char = getchar()))) identifier_str += last_char;
ReadIdentifier(s) ==
    LET t == getchar(s) IN
    IF isalnum(t.last_char)
    THEN ReadIdentifier([t EXCEPT !.identifier_str = Append(@, t.last_char)])
    ELSE t

RECURSIVE ReadNumber_one_dot(_, _)
\* Mutant of ReadNumber: the loop stops at a second '.', so the number token
\* ends where the number does.
ReadNumber_one_dot(s, numeric_str) ==
    LET str == Append(numeric_str, s.last_char)
        t == getchar(s) IN
    IF isdigit(t.last_char)
       \/ (t.last_char = CH_DOT /\ \A i \in DOMAIN str : str[i] # CH_DOT)
    THEN ReadNumber_one_dot(t, str)
    ELSE [s |-> t, str |-> str]

RECURSIVE ReadNumber(_, _)
\* do { numeric_str += last_char; last_char = getchar(); }
\* while (isdigit(last_char) || last_char == '.');
\* Returns the state and the accumulated numeric_str.
ReadNumber(s, numeric_str) ==
    LET str == Append(numeric_str, s.last_char)
        t == getchar(s) IN
    IF isdigit(t.last_char) \/ t.last_char = CH_DOT
    THEN ReadNumber(t, str)
    ELSE [s |-> t, str |-> str]

RECURSIVE SkipComment(_)
\* do last_char = getchar();
\* while (last_char != EOF && last_char != '\n' && last_char != '\r');
SkipComment(s) ==
    LET t == getchar(s) IN
    IF t.last_char # EOF /\ t.last_char # CH_NL /\ t.last_char # CH_CR
    THEN SkipComment(t)
    ELSE t

RECURSIVE CountDigits(_, _)
\* the number of consecutive digits of str from index i on
CountDigits(str, i) ==
    IF i <= Len(str) /\ isdigit(str[i]) THEN 1 + CountDigits(str, i + 1) ELSE 0

RECURSIVE DigitsValue(_, _)
\* the number that the first n characters of digits spell
DigitsValue(digits, n) ==
    IF n = 0 THEN 0 ELSE 10 * DigitsValue(digits, n - 1) + (digits[n] - 48)

RECURSIVE Normalize(_)
Normalize(d) ==
    IF d.e > 0 /\ d.m % 10 = 0 THEN Normalize([m |-> d.m \div 10, e |-> d.e - 1])
    ELSE d

\* strtod(str, 0) on a string of digits and dots: the value of the longest
\* prefix  digits [ '.' digits ]  holding at least one digit, and 0 when
\* there is none (no conversion is performed).
strtod(str) ==
    LET ni == CountDigits(str, 1)
        dot == ni < Len(str) /\ str[ni + 1] = CH_DOT
        nf == IF dot THEN CountDigits(str, ni + 2) ELSE 0
        digits == SubSeq(str, 1, ni) \o SubSeq(str, ni + 2, ni + 1 + nf)
    IN  IF ni + nf = 0 THEN [m |-> 0, e |-> 0]
        ELSE Normalize([m |-> DigitsValue(digits, ni + nf), e |-> nf])

RECURSIVE get_token(_)
\* Returns [s |-> the state after the call, ret |-> the token returned].
get_token(s0) ==
    LET s == SkipSpace(s0) IN
    IF isalpha(s.last_char) THEN
        LET t == ReadIdentifier([s EXCEPT !.identifier_str = <<s.last_char>>]) IN
        [s |-> t,
         ret |-> IF t.identifier_str = STR_def THEN tok_def
                 ELSE IF t.identifier_str = STR_extern THEN tok_extern
                 ELSE tok_identifier]
    ELSE IF isdigit(s.last_char) \/ s.last_char = CH_DOT THEN
        LET r == ReadNumber(s, <<>>) IN
        [s |-> [r.s EXCEPT !.numeric_value = strtod(r.str)], ret |-> tok_number]
    ELSE
        LET t == IF s.last_char = CH_HASH THEN SkipComment(s) ELSE s IN
        IF s.last_char = CH_HASH /\ t.last_char # EOF
        THEN get_token(t)
        ELSE IF t.last_char = EOF THEN [s |-> t, ret |-> tok_eof]
        ELSE [s |-> getchar(t), ret |-> t.last_char]

\* return current_token = get_token();
get_next_token(s) ==
    LET r == get_token(s) IN
    [r.s EXCEPT !.current_token = r.ret, !.ncalls = @ + 1]

---------------------------------------------------------------------------
(* The AST.  nullptr is the record NULL. *)

NULL == [kind |-> "null"]
IsNull(n) == n.kind = "null"
number_expr_ast(value) == [kind |-> "number", value |-> value]
variable_expr_ast(name) == [kind |-> "variable", name |-> name]
binary_expr_ast(op, lhs, rhs) ==
    [kind |-> "binary", op |-> op, lhs |-> lhs, rhs |-> rhs]
call_expr_ast(callee, args) == [kind |-> "call", callee |-> callee, args |-> args]
prototype_ast(name, args) == [kind |-> "prototype", name |-> name, args |-> args]
function_ast(proto, body) == [kind |-> "function", proto |-> proto, body |-> body]

---------------------------------------------------------------------------
(* The parser.  Every parse operator returns [s |-> the state after the    *)
(* call, node |-> the node returned, or NULL].  s.iters counts the         *)
(* iterations of the parser's three loops since the entry point was        *)
(* called; a loop that reaches MaxIters iterations is cut and reported in  *)
(* s.diverged.                                                             *)

MaxIters == 24

Diverge(s) == [s |-> [s EXCEPT !.diverged = TRUE], node |-> NULL]

\* std::cerr << "log_error: " << str << "\n"; return nullptr;
\* str ends with std::to_string(current_token) at every call in the source.
\* The field at is history: the number of tokens lexed when it was written.
log_error(s, str) ==
    [s |-> [s EXCEPT !.stderr_log =
                Append(@, [msg |-> str, tok |-> s.current_token, at |-> s.ncalls])],
     node |-> NULL]

log_error_proto(s, str) == log_error(s, str)

\* binop_precedence[current_token]: std::map::operator[] inserts a
\* value-initialised entry (0) for a key that is absent.
MapLookup(m, key) ==
    IF key \in DOMAIN m THEN m
    ELSE [k \in DOMAIN m \cup {key} |-> IF k = key THEN 0 ELSE m[k]]

\* Mutant of get_token_precedence: if (token_precedence < 0) return -1;
get_token_precedence_zero(s) ==
    IF ~isascii(s.current_token) THEN [s |-> s, ret |-> -1]
    ELSE
        LET m == MapLookup(s.binop_precedence, s.current_token)
            token_precedence == m[s.current_token]
        IN  [s |-> [s EXCEPT !.binop_precedence = m],
             ret |-> IF token_precedence < 0 THEN -1 ELSE token_precedence]

\* Returns [s |-> state, ret |-> precedence].
get_token_precedence(s) ==
    IF ~isascii(s.current_token) THEN [s |-> s, ret |-> -1]
    ELSE
        LET m == MapLookup(s.binop_precedence, s.current_token)
            token_precedence == m[s.current_token]
        IN  [s |-> [s EXCEPT !.binop_precedence = m],
             ret |-> IF token_precedence <= 0 THEN -1 ELSE token_precedence]

RECURSIVE parse_primary(_)
RECURSIVE parse_expression(_)
RECURSIVE parse_binop_rhs(_, _, _)
RECURSIVE ParseArgs(_, _)
RECURSIVE ReadArgNames(_, _)

\* A function of the source is one operator per stretch of its body between
\* two calls: the value a call returned is the last parameter of the
\* operator that goes on from it.

parse_number_expr(s) ==
    [s |-> get_next_token(s), node |-> number_expr_ast(s.numeric_value)]

\* Mutant of ParenClose: the token that is not ')' is skipped after the
\* diagnostic.
ParenClose_skip(v) ==
    IF IsNull(v.node) THEN v
    ELSE IF v.s.current_token # CH_RPAREN
    THEN [s |-> get_next_token(log_error(v.s, "expected ')'").s), node |-> NULL]
    ELSE [s |-> get_next_token(v.s), node |-> v.node]

\* parse_paren_expr, from the return of parse_expression
ParenClose(v) ==
    IF IsNull(v.node) THEN v
    ELSE IF v.s.current_token # CH_RPAREN THEN log_error(v.s, "expected ')'")
    ELSE [s |-> get_next_token(v.s), node |-> v.node]

parse_paren_expr(s) == ParenClose(parse_expression(get_next_token(s)))

\* Mutant of ArgNext: an argument that follows another without a ',' is
\* taken as the next argument.
ArgNext_no_comma(arg, args) ==
    IF IsNull(arg.node) THEN [s |-> arg.s, node |-> NULL, args |-> args]
    ELSE IF arg.s.current_token = CH_RPAREN
    THEN [s |-> arg.s, node |-> arg.node, args |-> Append(args, arg.node)]
    ELSE IF arg.s.current_token # CH_COMMA
    THEN ParseArgs(arg.s, Append(args, arg.node))
    ELSE ParseArgs(get_next_token(arg.s), Append(args, arg.node))

\* The while (true) loop of parse_identifier_expr, from the return of
\* parse_expression: arg is what it returned.
ArgNext(arg, args) ==
    IF IsNull(arg.node) THEN [s |-> arg.s, node |-> NULL, args |-> args]
    ELSE IF arg.s.current_token = CH_RPAREN
    THEN [s |-> arg.s, node |-> arg.node, args |-> Append(args, arg.node)]
    ELSE IF arg.s.current_token # CH_COMMA
    THEN log_error(arg.s, "Expected ')' of ',' in argument list") @@ [args |-> args]
    ELSE ParseArgs(get_next_token(arg.s), Append(args, arg.node))

\* The while (true) loop of parse_identifier_expr, entered with the first
\* token of an argument current.  Returns [s, node, args]: node is NULL
\* when the loop returned nullptr, and args holds the arguments otherwise.
ParseArgs(s, args) ==
    IF s.iters >= MaxIters THEN Diverge(s) @@ [args |-> args]
    ELSE ArgNext(parse_expression([s EXCEPT !.iters = @ + 1]), args)

\* parse_identifier_expr, after the loop: get_next_token() consumes ')'
CallClose(id_name, a) ==
    IF IsNull(a.node) THEN [s |-> a.s, node |-> NULL]
    ELSE [s |-> get_next_token(a.s), node |-> call_expr_ast(id_name, a.args)]

\* parse_identifier_expr, after get_next_token() consumed '('
CallArgs(id_name, s) ==
    IF s.current_token = CH_RPAREN
    THEN [s |-> get_next_token(s), node |-> call_expr_ast(id_name, <<>>)]
    ELSE CallClose(id_name, ParseArgs(s, <<>>))

\* parse_identifier_expr, after get_next_token() consumed the identifier
IdentifierRest(id_name, s) ==
    IF s.current_token # CH_LPAREN
    THEN [s |-> s, node |-> variable_expr_ast(id_name)]
    ELSE CallArgs(id_name, get_next_token(s))

parse_identifier_expr(s) == IdentifierRest(s.identifier_str, get_next_token(s))

parse_primary(s) ==
    IF s.current_token = tok_identifier THEN parse_identifier_expr(s)
    ELSE IF s.current_token = tok_number THEN parse_number_expr(s)
    ELSE IF s.current_token = CH_LPAREN THEN parse_paren_expr(s)
    ELSE log_error(s, "Expected expression")

\* parse_binop_rhs: merge lhs/rhs, and loop around to the top of the loop
BinopMerge(expr_precedence, left_hand_side, binary_op, right) ==
    IF IsNull(right.node) THEN right
    ELSE parse_binop_rhs(
            expr_precedence,
            binary_expr_ast(binary_op, left_hand_side, right.node),
            [right.s EXCEPT !.built_ops = @ \cup {binary_op}])

\* Mutant of BinopNext: if (token_precedence <= next_precedence)
BinopNext_right(expr_precedence, left_hand_side, token_precedence, binary_op, right_hand_side, n) ==
    BinopMerge(expr_precedence, left_hand_side, binary_op,
               IF token_precedence <= n.ret
               THEN parse_binop_rhs(token_precedence, right_hand_side, n.s)
               ELSE [s |-> n.s, node |-> right_hand_side])

\* parse_binop_rhs, from int next_precedence = get_token_precedence(): n
BinopNext(expr_precedence, left_hand_side, token_precedence, binary_op, right_hand_side, n) ==
    BinopMerge(expr_precedence, left_hand_side, binary_op,
               IF token_precedence < n.ret
               THEN parse_binop_rhs(token_precedence + 1, right_hand_side, n.s)
               ELSE [s |-> n.s, node |-> right_hand_side])

\* parse_binop_rhs, from the return of parse_primary: rhs
BinopRhs(expr_precedence, left_hand_side, token_precedence, binary_op, rhs) ==
    IF IsNull(rhs.node) THEN rhs
    ELSE BinopNext(expr_precedence, left_hand_side, token_precedence, binary_op,
                   rhs.node, get_token_precedence(rhs.s))

\* parse_binop_rhs, from int token_precedence = get_token_precedence(): p
BinopOp(expr_precedence, left_hand_side, p) ==
    IF p.ret < expr_precedence
    THEN [s |-> p.s, node |-> left_hand_side]
    ELSE BinopRhs(expr_precedence, left_hand_side, p.ret, p.s.current_token,
                  parse_primary(get_next_token([p.s EXCEPT !.iters = @ + 1])))

\* One pass of the while (true) loop per call; the loop's next iteration is
\* the call in BinopMerge.
parse_binop_rhs(expr_precedence, left_hand_side, s) ==
    IF s.iters >= MaxIters THEN Diverge(s)
    ELSE BinopOp(expr_precedence, left_hand_side, get_token_precedence(s))

\* parse_expression, from the return of parse_primary
ExpressionRest(lhs) ==
    IF IsNull(lhs.node) THEN lhs ELSE parse_binop_rhs(0, lhs.node, lhs.s)

parse_expression(s) == ExpressionRest(parse_primary(s))

\* Mutant of ArgNameNext: a ',' between two parameters is skipped.
ArgNameNext_commas(t, arg_names) ==
    IF t.current_token = tok_identifier
    THEN ReadArgNames(t, Append(arg_names, t.identifier_str))
    ELSE IF t.current_token = CH_COMMA THEN ReadArgNames(t, arg_names)
    ELSE [s |-> t, node |-> prototype_ast(<<>>, <<>>), names |-> arg_names]

\* Mutant of ArgNameNext: while (get_next_token() != ')')
ArgNameNext_until_paren(t, arg_names) ==
    IF t.current_token # CH_RPAREN
    THEN ReadArgNames(t, Append(arg_names, t.identifier_str))
    ELSE [s |-> t, node |-> prototype_ast(<<>>, <<>>), names |-> arg_names]

\* while (get_next_token() == tok_identifier) arg_names.push_back(identifier_str);
\* from the return of get_next_token.  Returns [s, node, names]; node is
\* NULL only when the loop was cut.
ArgNameNext(t, arg_names) ==
    IF t.current_token = tok_identifier
    THEN ReadArgNames(t, Append(arg_names, t.identifier_str))
    ELSE [s |-> t, node |-> prototype_ast(<<>>, <<>>), names |-> arg_names]

ReadArgNames(s, arg_names) ==
    IF s.iters >= MaxIters THEN Diverge(s) @@ [names |-> arg_names]
    ELSE ArgNameNext(get_next_token([s EXCEPT !.iters = @ + 1]), arg_names)

\* parse_prototype, after the loop
PrototypeClose(fn_name, a) ==
    IF IsNull(a.node) THEN [s |-> a.s, node |-> NULL]
    ELSE IF a.s.current_token # CH_RPAREN
    THEN log_error_proto(a.s, "Expected ')' in prototype")
    ELSE [s |-> get_next_token(a.s), node |-> prototype_ast(fn_name, a.names)]

\* parse_prototype, after get_next_token() consumed the function name
PrototypeArgs(fn_name, s) ==
    IF s.current_token # CH_LPAREN
    THEN log_error_proto(s, "Expected '(' in prototype")
    ELSE PrototypeClose(fn_name, ReadArgNames(s, <<>>))

parse_prototype(s) ==
    IF s.current_token # tok_identifier
    THEN log_error_proto(s, "Expected function name in prototype")
    ELSE PrototypeArgs(s.identifier_str, get_next_token(s))

\* Mutant of DefinitionClose: the body is not tested for nullptr.
DefinitionClose_unchecked(proto, expr) ==
    [s |-> expr.s, node |-> function_ast(proto, expr.node)]

\* parse_definition, from the return of parse_expression
DefinitionClose(proto, expr) ==
    IF IsNull(expr.node) THEN expr
    ELSE [s |-> expr.s, node |-> function_ast(proto, expr.node)]

\* parse_definition, from the return of parse_prototype
DefinitionBody(proto) ==
    IF IsNull(proto.node) THEN proto
    ELSE DefinitionClose(proto.node, parse_expression(proto.s))

parse_definition(s) == DefinitionBody(parse_prototype(get_next_token(s)))

parse_extern(s) == parse_prototype(get_next_token(s))

\* parse_top_level_expr, from the return of parse_expression
TopLevelClose(expr) ==
    IF IsNull(expr.node) THEN expr
    ELSE [s |-> expr.s,
          node |-> function_ast(prototype_ast(<<>>, <<>>), expr.node)]

parse_top_level_expr(s) == TopLevelClose(parse_expression(s))

---------------------------------------------------------------------------
(* The inputs: character strings built from lexemes. *)

MaxOps == 3         \* operators in an operator chain
MaxItems == 4       \* lexemes in a free-form statement
MaxArgItems == 4    \* lexemes after "f(" of a call
MaxProtoItems == 5  \* lexemes after def or extern
MaxLexLen == 4      \* characters of a lexer input
MaxRuns == 2        \* rewinds of the input stream in the lexer harness

RECURSIVE Flatten(_)
Flatten(ss) == IF ss = <<>> THEN <<>> ELSE Head(ss) \o Flatten(Tail(ss))

SeqsUpTo(S, n) == UNION {[1..k -> S] : k \in 0..n}

\* The i-th primary of a chain: the digit i, or x.
ChainPrimaries(i) == {<<48 + i>>, <<120>>}
ChainOps == {CH_LT, CH_PLUS, CH_MINUS, CH_STAR}

RECURSIVE Chain(_, _)
\* ps[1] os[1] ps[2] ... os[k] ps[k+1]
Chain(ps, os) ==
    IF os = <<>> THEN ps[1]
    ELSE ps[1] \o <<os[1]>> \o Chain(Tail(ps), Tail(os))

IsChainPrimaries(ps) == \A i \in DOMAIN ps : ps[i] \in ChainPrimaries(i)

ChainInputs ==
    UNION {{Chain(ps, os) :
              ps \in {q \in [1..k + 1 -> UNION {ChainPrimaries(i) : i \in 1..k + 1}] :
                        IsChainPrimaries(q)},
              os \in [1..k -> ChainOps]} : k \in 0..MaxOps}

\* "1", "f", "(", ")", ",", "+", ";", "def "
SoupLexemes ==
    {<<49>>, <<102>>, <<CH_LPAREN>>, <<CH_RPAREN>>, <<CH_COMMA>>, <<CH_PLUS>>,
     <<CH_SEMI>>, STR_def \o <<CH_SPACE>>}
SoupInputs == {Flatten(ls) : ls \in SeqsUpTo(SoupLexemes, MaxItems)}

\* "f(" and then "1", "x", "(", ")", ",", "+"
ArgLexemes ==
    {<<49>>, <<120>>, <<CH_LPAREN>>, <<CH_RPAREN>>, <<CH_COMMA>>, <<CH_PLUS>>}
CallInputs ==
    {<<102, CH_LPAREN>> \o Flatten(ls) : ls \in SeqsUpTo(ArgLexemes, MaxArgItems)}

\* def or extern, then "x ", "y ", "(", ")", ",", then nothing or "x+y"
ProtoLexemes ==
    {<<120, CH_SPACE>>, <<121, CH_SPACE>>, <<CH_LPAREN>>, <<CH_RPAREN>>,
     <<CH_COMMA>>}
ProtoBodies == {<<>>, <<120, CH_PLUS, 121>>}
ProtoInputs ==
    {STR_extern \o <<CH_SPACE>> \o Flatten(ls) :
        ls \in SeqsUpTo(ProtoLexemes, MaxProtoItems)}
    \cup {STR_def \o <<CH_SPACE>> \o Flatten(ls) \o b :
            ls \in SeqsUpTo(ProtoLexemes, MaxProtoItems), b \in ProtoBodies}

\* Section 8 of the specification: "def foo(x y) x+y", "foo(1,2)", "(1+2"
Input_def_foo == <<100, 101, 102, 32, 102, 111, 111, 40, 120, 32, 121, 41, 32,
                   120, 43, 121>>
Input_foo_1_2 == <<102, 111, 111, 40, 49, 44, 50, 41>>
Input_paren_1_2 == <<40, 49, 43, 50>>

Inputs ==
    ChainInputs \cup SoupInputs \cup CallInputs \cup ProtoInputs
    \cup {Input_def_foo, Input_foo_1_2, Input_paren_1_2}

\* "1", ".", "a", "#", "\n"
LexChars == {49, CH_DOT, 97, CH_HASH, CH_NL}
\* "1.2.3", "3.14", "foo123", "def", "extern", "de f#1\r2"
Input_1_2_3 == <<49, 46, 50, 46, 51>>
LexInputs ==
    SeqsUpTo(LexChars, MaxLexLen)
    \cup {Input_1_2_3, <<51, 46, 49, 52>>, <<102, 111, 111, 49, 50, 51>>,
          STR_def, STR_extern, <<100, 101, 32, 102, 35, 49, 13, 50>>}

---------------------------------------------------------------------------
(* The program *)

\* The globals, as the operators above take them.
State ==
    [pos |-> pos, last_char |-> last_char, identifier_str |-> identifier_str,
     numeric_value |-> numeric_value, current_token |-> current_token,
     binop_precedence |-> binop_precedence, stderr_log |-> stderr_log,
     ncalls |-> ncalls, built_ops |-> built_ops, iters |-> 0, diverged |-> FALSE]

Install(s) ==
    /\ pos' = s.pos
    /\ last_char' = s.last_char
    /\ identifier_str' = s.identifier_str
    /\ numeric_value' = s.numeric_value
    /\ current_token' = s.current_token
    /\ binop_precedence' = s.binop_precedence
    /\ stderr_log' = s.stderr_log
    /\ ncalls' = s.ncalls
    /\ built_ops' = s.built_ops

\* The dispatch that main makes on current_token: the case taken and the
\* state it was taken in (history).
Entry(case) == [case |-> case, s0 |-> State, iters |-> 0, diverged |-> FALSE]
Exit(case, r) ==
    [case |-> case, s0 |-> State, iters |-> r.s.iters, diverged |-> r.s.diverged]

\* The initialiser of binop_precedence
binop_precedence_init ==
    (CH_LT :> 10) @@ (CH_GT :> 10) @@ (CH_PLUS :> 20) @@ (CH_MINUS :> 20)
    @@ (CH_STAR :> 40) @@ (CH_SLASH :> 40)

\* The static initialisers of the source: last_char = ' ', the table of
\* binop_precedence, and zero for every other static object.
InitStatics ==
    /\ pos = 0
    /\ last_char = CH_SPACE
    /\ identifier_str = <<>>
    /\ numeric_value = [m |-> 0, e |-> 0]
    /\ current_token = 0
    /\ binop_precedence = binop_precedence_init
    /\ stderr_log = <<>>
    /\ result = NULL
    /\ call = [case |-> "none"]
    /\ ncalls = 0
    /\ built_ops = {}
    /\ dispatches = 0
    /\ tokens = <<>>
    /\ runs = 0

Init ==
    /\ input \in Inputs
    /\ pc = "main"
    /\ InitStatics

\* case tok_eof: return 0;
main_eof ==
    /\ pc = "main"
    /\ current_token = tok_eof
    /\ pc' = "exit"
    /\ call' = Entry("eof")
    /\ dispatches' = dispatches + 1
    /\ UNCHANGED <<input, pos, last_char, identifier_str, numeric_value,
                   current_token, binop_precedence, stderr_log, result, ncalls,
                   built_ops, tokens, runs>>

\* case ';': get_next_token(); break;
main_semicolon ==
    /\ pc = "main"
    /\ current_token = CH_SEMI
    /\ Install(get_next_token(State))
    /\ call' = Entry("semicolon")
    /\ dispatches' = dispatches + 1
    /\ UNCHANGED <<input, pc, result, tokens, runs>>

\* A handler called by main, as far as the return of the parser entry
\* point it calls.
Handle(case, r) ==
    /\ Install(r.s)
    /\ result' = r.node
    /\ call' = Exit(case, r)
    /\ dispatches' = dispatches + 1
    /\ pc' = "handler"
    /\ UNCHANGED <<input, tokens, runs>>

\* case tok_def: handle_definition();
main_def ==
    /\ pc = "main"
    /\ current_token = tok_def
    /\ Handle("definition", parse_definition(State))

\* case tok_extern: handle_extern();
main_extern ==
    /\ pc = "main"
    /\ current_token = tok_extern
    /\ Handle("extern", parse_extern(State))

\* default: handle_top_level_expr();
main_default ==
    /\ pc = "main"
    /\ current_token \notin {tok_eof, CH_SEMI, tok_def, tok_extern}
    /\ Handle("top_level_expr", parse_top_level_expr(State))

\* The rest of the handler: a failed parse is followed by one
\* get_next_token(), which skips the offending token; break.
handler_return ==
    /\ pc = "handler"
    /\ Install(IF IsNull(result) THEN get_next_token(State) ELSE State)
    /\ pc' = "main"
    /\ UNCHANGED <<input, result, call, dispatches, tokens, runs>>

Next ==
    \/ main_eof
    \/ main_semicolon
    \/ main_def
    \/ main_extern
    \/ main_default
    \/ handler_return

Spec == Init /\ [][Next]_vars

---------------------------------------------------------------------------
(* The lexer on its own: a caller that pulls the tokens of the stream one  *)
(* by one, and may set the stream back to its start at any time.  Nothing  *)
(* in the source resets last_char, identifier_str or numeric_value.        *)

ZERO == [m |-> 0, e |-> 0]

\* The token a call of get_next_token left in s, with its payload.
TokenOf(s) ==
    [tok |-> s.current_token,
     identifier_str |-> IF s.current_token = tok_identifier
                        THEN s.identifier_str ELSE <<>>,
     numeric_value |-> IF s.current_token = tok_number
                       THEN s.numeric_value ELSE ZERO]

InitLex ==
    /\ input \in LexInputs
    /\ pc = "lex"
    /\ InitStatics

RunComplete == tokens # <<>> /\ tokens[Len(tokens)].tok = tok_eof

\* get_next_token(), until the run has delivered end-of-input
lex_token ==
    /\ pc = "lex"
    /\ ~RunComplete
    /\ Install(get_next_token(State))
    /\ tokens' = Append(tokens, TokenOf(get_next_token(State)))
    /\ UNCHANGED <<input, pc, result, call, dispatches, runs>>

\* The stream is set back to its first character.
rewind ==
    /\ pc = "lex"
    /\ runs < MaxRuns
    /\ pos' = 0
    /\ tokens' = <<>>
    /\ runs' = runs + 1
    /\ UNCHANGED <<input, last_char, identifier_str, numeric_value,
                   current_token, binop_precedence, stderr_log, pc, result, call,
                   ncalls, built_ops, dispatches>>

NextLex ==
    \/ lex_token
    \/ rewind

SpecLex == InitLex /\ [][NextLex]_vars

---------------------------------------------------------------------------
(* What the claims are stated in *)

\* The state the statics are initialised to.
InitialState ==
    [pos |-> 0, last_char |-> CH_SPACE, identifier_str |-> <<>>,
     numeric_value |-> ZERO, current_token |-> 0,
     binop_precedence |-> binop_precedence_init, stderr_log |-> <<>>,
     ncalls |-> 0, built_ops |-> {}, iters |-> 0, diverged |-> FALSE]

RECURSIVE TokensFrom(_)
\* The tokens that get_next_token delivers from s on, end-of-input included.
TokensFrom(s) ==
    LET t == get_next_token(s) IN
    IF t.current_token = tok_eof THEN <<TokenOf(t)>>
    ELSE <<TokenOf(t)>> \o TokensFrom(t)

\* The tokens of the input, lexed from its start by a lexer in its initial
\* state.
Toks == TokensFrom(InitialState)

IsPrefix(a, b) == Len(a) <= Len(b) /\ SubSeq(b, 1, Len(a)) = a

Number(m, e) == [tok |-> tok_number, identifier_str |-> <<>>,
                 numeric_value |-> [m |-> m, e |-> e]]
Literal(c) == [tok |-> c, identifier_str |-> <<>>, numeric_value |-> ZERO]

\* C2 (as claimed): tokenizing "1.2.3" yields the number 1.2, then the
\* literal character '.', then the number 3.
C2_ThreeTokens ==
    (pc = "lex" /\ input = Input_1_2_3 /\ runs = 0 /\ RunComplete)
        => /\ Len(tokens) >= 3
           /\ tokens[1] = Number(12, 1)
           /\ tokens[2] = Literal(CH_DOT)
           /\ tokens[3] = Number(3, 0)

\* C2 (amended): tokenizing "1.2.3" yields the single number token 1.2 and
\* then end-of-input: the number token consumes every digit and dot, and
\* what follows the parseable prefix is dropped.
C2_OneNumberToken ==
    (pc = "lex" /\ input = Input_1_2_3 /\ runs = 0 /\ RunComplete)
        => /\ tokens = <<Number(12, 1), Literal(tok_eof)>>
           /\ pos = Len(input)

C2_Witness ==
    /\ pc = "lex" /\ input = Input_1_2_3 /\ runs = 0 /\ RunComplete
    /\ tokens[1].numeric_value = [m |-> 12, e |-> 1]

\* C3: after the stream is set back to its start, the tokens delivered are
\* again those of the input lexed from its start, whatever was lexed before.
C3_RetokenizeSame ==
    (pc = "lex" /\ runs > 0) => IsPrefix(tokens, Toks)

---------------------------------------------------------------------------
(* The parser's claims, on the program (Spec) *)

TokAt(toks, i) == IF i \in 1..Len(toks) THEN toks[i] ELSE Literal(tok_eof)

\* The state in which the i-th token of the input is current.
RECURSIVE StateAt(_)
StateAt(i) == IF i = 0 THEN InitialState ELSE get_next_token(StateAt(i - 1))

\* The precedence table of the specification, section 4.2.
OpKeys == {CH_LT, CH_GT, CH_PLUS, CH_MINUS, CH_STAR, CH_SLASH}
TablePrecedence(c) ==
    IF c \in {CH_LT, CH_GT} THEN 10
    ELSE IF c \in {CH_PLUS, CH_MINUS} THEN 20
    ELSE 40

IsPrimaryToken(tk) == tk.tok \in {tok_number, tok_identifier}
Leaf(tk) ==
    IF tk.tok = tok_number THEN number_expr_ast(tk.numeric_value)
    ELSE variable_expr_ast(tk.identifier_str)

\* toks is primaries separated by operators of the table, then end-of-input.
IsChain(toks) ==
    /\ Len(toks) % 2 = 0
    /\ \A i \in 1..Len(toks) - 1 :
          IF i % 2 = 1 THEN IsPrimaryToken(toks[i]) ELSE toks[i].tok \in OpKeys

SetMin(S) == CHOOSE x \in S : \A y \in S : x <= y
SetMax(S) == CHOOSE x \in S : \A y \in S : x >= y

RECURSIVE ChainTree(_, _, _)
\* The tree of the chain toks[lo..hi]: its root is the operator that binds
\* least, and of those that bind the same the last one.
ChainTree(toks, lo, hi) ==
    IF lo = hi THEN Leaf(toks[lo])
    ELSE
        LET ops == {i \in lo..hi : (i - lo) % 2 = 1}
            weakest == SetMin({TablePrecedence(toks[i].tok) : i \in ops})
            root == SetMax({i \in ops : TablePrecedence(toks[i].tok) = weakest})
        IN  binary_expr_ast(toks[root].tok, ChainTree(toks, lo, root - 1),
                            ChainTree(toks, root + 1, hi))

Anonymous(body) == function_ast(prototype_ast(<<>>, <<>>), body)
Num(n) == number_expr_ast([m |-> n, e |-> 0])

\* "1+2*3" and "1-2-3"
Input_1_plus_2_times_3 == <<49, 43, 50, 42, 51>>
Input_1_minus_2_minus_3 == <<49, 45, 50, 45, 51>>

\* The parse of the statement that starts at the first token of the input
\* has returned.
FirstStatementParsed == pc = "handler" /\ call.s0.ncalls = 1

\* C1: a chain of primaries and operators parses to the tree with the
\* primaries as leaves in input order, tighter operators lower, and equal
\* precedence grouped to the left; 1+2*3 is +(1, *(2, 3)) and 1-2-3 is
\* -(-(1, 2), 3).
C1_Precedence ==
    FirstStatementParsed =>
        LET toks == Toks IN
        /\ IsChain(toks) =>
              /\ call.case = "top_level_expr"
              /\ result = Anonymous(ChainTree(toks, 1, Len(toks) - 1))
              /\ current_token = tok_eof
        /\ input = Input_1_plus_2_times_3 =>
              result = Anonymous(binary_expr_ast(CH_PLUS, Num(1),
                                    binary_expr_ast(CH_STAR, Num(2), Num(3))))
        /\ input = Input_1_minus_2_minus_3 =>
              result = Anonymous(binary_expr_ast(CH_MINUS,
                                    binary_expr_ast(CH_MINUS, Num(1), Num(2)),
                                    Num(3)))

C1_Witness ==
    /\ FirstStatementParsed
    /\ input = Input_1_minus_2_minus_3
    /\ ~IsNull(result)
    /\ result.body.op = CH_MINUS
    /\ result.body.lhs.kind = "binary"

\* C4: the first dispatch of main is made with exactly one token lexed, on
\* the first token of the input.
C4_FirstDispatchOnFirstToken ==
    dispatches = 1 =>
        /\ call.s0.ncalls = 1
        /\ call.s0.current_token = Toks[1].tok

LastError == stderr_log[Len(stderr_log)]

\* C5: when an entry point fails, the current token is the token that the
\* diagnostic names, and no token was lexed since the diagnostic; after
\* "(1+2" it is end-of-input.
C5_OffendingTokenStays ==
    (pc = "handler" /\ IsNull(result)) =>
        /\ stderr_log # <<>>
        /\ current_token = LastError.tok
        /\ ncalls = LastError.at
        /\ (input = Input_paren_1_2 /\ call.s0.ncalls = 1)
              => current_token = tok_eof

C5_Witness ==
    /\ pc = "handler" /\ IsNull(result)
    /\ input = Input_paren_1_2 /\ call.s0.ncalls = 1
    /\ LastError.msg = "expected ')'"
    /\ LastError.tok = tok_eof

RECURSIVE WellFormedExpr(_)
WellFormedExpr(n) ==
    IF n.kind = "binary" THEN WellFormedExpr(n.lhs) /\ WellFormedExpr(n.rhs)
    ELSE IF n.kind = "call"
    THEN \A i \in DOMAIN n.args : WellFormedExpr(n.args[i])
    ELSE n.kind \in {"number", "variable"}

WellFormed(case, n) ==
    IF case = "extern" THEN n.kind = "prototype"
    ELSE /\ n.kind = "function"
         /\ n.proto.kind = "prototype"
         /\ WellFormedExpr(n.body)

\* C6: an entry point returns nullptr exactly when log_error was called
\* during the call, and what it returns otherwise holds no nullptr.
C6_NullIffDiagnostic ==
    pc = "handler" =>
        /\ IsNull(result) <=> Len(stderr_log) > Len(call.s0.stderr_log)
        /\ ~IsNull(result) => WellFormed(call.case, result)

C6_Witness ==
    /\ pc = "handler"
    /\ call.case = "definition"
    /\ IsNull(result)
    /\ LastError.msg = "Expected expression"
    /\ Len(stderr_log) = Len(call.s0.stderr_log) + 1

\* C7: the operator of every binary_expr_ast built is a key of the table
\* with a positive precedence, and the precedence of any other token is -1.
C7_OperatorsInTable ==
    /\ built_ops \subseteq OpKeys
    /\ \A op \in built_ops : binop_precedence[op] > 0
    /\ get_token_precedence(State).ret =
          IF current_token \in OpKeys THEN TablePrecedence(current_token) ELSE -1

C7_Witness ==
    /\ built_ops # {}
    /\ DOMAIN binop_precedence # OpKeys
    /\ pc = "handler" /\ ~IsNull(result)

RECURSIVE CountIdentifiers(_, _)
\* the number of consecutive identifier tokens of toks from index i on
CountIdentifiers(toks, i) ==
    IF TokAt(toks, i).tok = tok_identifier
    THEN 1 + CountIdentifiers(toks, i + 1) ELSE 0

\* toks[i..] starts with  IDENT '(' IDENT* ')'
IsPrototype(toks, i) ==
    /\ TokAt(toks, i).tok = tok_identifier
    /\ TokAt(toks, i + 1).tok = CH_LPAREN
    /\ TokAt(toks, i + 2 + CountIdentifiers(toks, i + 2)).tok = CH_RPAREN

\* the prototype that toks[i..] starts with
PrototypeAt(toks, i) ==
    prototype_ast(toks[i].identifier_str,
                  [j \in 1..CountIdentifiers(toks, i + 2) |->
                      toks[i + 1 + j].identifier_str])

\* "foo", "x", "y"
STR_foo == <<102, 111, 111>>
STR_x == <<120>>
STR_y == <<121>>

\* C8: parse_prototype succeeds exactly on  IDENT '(' IDENT* ')'  and returns
\* the name and the parameters in order; "def foo(x y) x+y" yields
\* Function(Prototype(foo, [x, y]), x + y).
C8_Prototype ==
    (pc = "handler" /\ call.case \in {"extern", "definition"}) =>
        LET toks == Toks
            i == call.s0.ncalls + 1
        IN  /\ call.case = "extern" =>
                 /\ ~IsNull(result) <=> IsPrototype(toks, i)
                 /\ ~IsNull(result) =>
                       /\ result = PrototypeAt(toks, i)
                       /\ ncalls = i + 3 + Len(result.args)
            /\ call.case = "definition" =>
                 /\ ~IsPrototype(toks, i) => IsNull(result)
                 /\ ~IsNull(result) => result.proto = PrototypeAt(toks, i)
                 /\ input = Input_def_foo =>
                       result = function_ast(
                                   prototype_ast(STR_foo, <<STR_x, STR_y>>),
                                   binary_expr_ast(CH_PLUS,
                                                   variable_expr_ast(STR_x),
                                                   variable_expr_ast(STR_y)))

C8_Witness ==
    /\ pc = "handler" /\ call.case = "extern"
    /\ ~IsNull(result)
    /\ result.name = STR_x
    /\ result.args = <<STR_y, STR_y>>

RECURSIVE MatchingParen(_, _, _)
\* The index of the ')' that closes the '(' before toks[i], at nesting
\* depth, and 0 when there is none.
MatchingParen(toks, i, depth) ==
    IF i >= Len(toks) THEN 0
    ELSE IF toks[i].tok = CH_RPAREN
    THEN IF depth = 0 THEN i ELSE MatchingParen(toks, i + 1, depth - 1)
    ELSE IF toks[i].tok = CH_LPAREN THEN MatchingParen(toks, i + 1, depth + 1)
    ELSE MatchingParen(toks, i + 1, depth)

RECURSIVE NextComma(_, _, _, _)
\* The index of the first ',' of toks[i..close-1] outside any parentheses,
\* and close when there is none.
NextComma(toks, i, close, depth) ==
    IF i >= close THEN close
    ELSE IF toks[i].tok = CH_COMMA /\ depth = 0 THEN i
    ELSE IF toks[i].tok = CH_LPAREN THEN NextComma(toks, i + 1, close, depth + 1)
    ELSE IF toks[i].tok = CH_RPAREN THEN NextComma(toks, i + 1, close, depth - 1)
    ELSE NextComma(toks, i + 1, close, depth)

RECURSIVE ArgumentsOf(_, _, _)
\* The expressions of toks[i..close-1], separated by ',': each stretch up to
\* the next ',' outside parentheses must be one whole expression.  Returns
\* [ok, args].
ArgumentsOf(toks, i, close) ==
    LET stop == NextComma(toks, i, close, 0)
        e == parse_expression(StateAt(i))
        rest == ArgumentsOf(toks, stop + 1, close)
    IN  IF IsNull(e.node) \/ e.s.ncalls # stop THEN [ok |-> FALSE, args |-> <<>>]
        ELSE IF stop = close THEN [ok |-> TRUE, args |-> <<e.node>>]
        ELSE [ok |-> rest.ok, args |-> <<e.node>> \o rest.args]

RECURSIVE FirstOperand(_)
\* The first primary of an expression.
FirstOperand(n) == IF n.kind = "binary" THEN FirstOperand(n.lhs) ELSE n

\* C9: parse_identifier_expr returns a variable reference, consuming only
\* the identifier, when the next token is not '(', and otherwise the call
\* with the comma-separated expressions up to the matching ')', in order,
\* consuming the ')'; anything else in the argument list is a failure.
C9_IdentifierExpr ==
    (pc = "handler" /\ call.case = "top_level_expr"
        /\ call.s0.current_token = tok_identifier) =>
        LET toks == Toks
            i == call.s0.ncalls
            id_name == toks[i].identifier_str
            r == parse_identifier_expr(call.s0)
            close == MatchingParen(toks, i + 2, 0)
            a == IF close = i + 2 THEN [ok |-> TRUE, args |-> <<>>]
                 ELSE ArgumentsOf(toks, i + 2, close)
        IN  /\ IsNull(r.node) => IsNull(result)
            /\ ~IsNull(result) => FirstOperand(result.body) = r.node
            /\ IF toks[i + 1].tok # CH_LPAREN
               THEN r.node = variable_expr_ast(id_name) /\ r.s.ncalls = i + 1
               ELSE IF close # 0 /\ a.ok
               THEN /\ r.node = call_expr_ast(id_name, a.args)
                    /\ r.s.ncalls = close + 1
               ELSE IsNull(r.node)

C9_Witness ==
    /\ pc = "handler" /\ call.case = "top_level_expr"
    /\ input = Input_foo_1_2
    /\ ~IsNull(result)
    /\ result.body = call_expr_ast(STR_foo, <<Num(1), Num(2)>>)

\* C10: a call of an entry point ends; it lexes no more tokens than the
\* input holds before end-of-input, its loops make no more iterations than
\* it lexes tokens, and once end-of-input is the current token the lexer
\* delivers end-of-input again.
C10_Terminates ==
    /\ pc = "handler" =>
          /\ ~call.diverged
          /\ call.iters <= ncalls - call.s0.ncalls
          /\ ncalls <= Len(Toks)
    /\ (ncalls > 0 /\ current_token = tok_eof) =>
          /\ get_next_token(State).current_token = tok_eof
          /\ last_char = EOF

C10_Witness ==
    /\ pc = "main" /\ current_token = tok_eof
    /\ ncalls = Len(Toks) + 1
    /\ call.case = "definition" /\ call.iters = 3

=============================================================================
